---- MODULE Spec2Model ----
(***************************************************************************)
(* Model of src/source/c/jhdf5/strcpyJHDF5.c: the three native methods     *)
(* compoundCpyVLStr (encode), createVLStrFromCompound (decode) and         *)
(* freeCompoundVLStr (releaseAll) acting on one caller byte array, the     *)
(* native heap, and the JNI pin counts of the arrays.                      *)
(*                                                                         *)
(* Memory is modelled byte by byte.  A pointer occupies getPointerSize     *)
(* bytes of the array, little-endian, each byte in 0..255.  Reads outside  *)
(* an array or outside a heap allocation are undefined behaviour: the      *)
(* bytes found there are chosen nondeterministically.                      *)
(***************************************************************************)
EXTENDS Integers, Sequences, FiniteSets, TLC

\* ------------------------------------------------------------------ bounds
MaxBufLen == 3          \* longest caller byte array
NumAddrs == 1           \* heap addresses calloc can hand out
MaxIdxLen == 1          \* longest vlIndices array

\* sizeof(void *), on a build with two-byte pointers
getPointerSize == 2

\* record sizes: none, smaller than a slot, one slot, one slot and a byte
RecordSizes == 0..(getPointerSize + 1)
SlotOffsets == 0..(MaxBufLen - 1)
FieldOffsets == 0..(getPointerSize - 1)

\* --------------------------------------------------------------- values
NULL == 0
\* the addresses calloc can return: two-byte values with no zero byte
Addr == (256 + 1)..(256 + NumAddrs)

\* the texts: empty, one one-byte character ("a"), one two-byte character
\* (U+00E9)
Texts == {<<>>, <<"a">>, <<"u00e9">>}
RECURSIVE SeqsUpTo(_, _)
SeqsUpTo(S, n) ==
    IF n = 0 THEN {<<>>}
    ELSE LET shorter == SeqsUpTo(S, n - 1)
         IN  shorter \cup {Append(s, x) : s \in {t \in shorter : Len(t) = n - 1}, x \in S}

\* a Java reference to a String: null, or a string of characters
NullStr == [isNull |-> TRUE, chars |-> <<>>]
JStr(t) == [isNull |-> FALSE, chars |-> t]
JStrings == {NullStr} \cup {JStr(t) : t \in Texts}
\* a Java reference to the byte array: null, or the array of the model
JByteArrays == {"null", "buf"}
\* a Java reference to an int array: null, or an array of field offsets
NullInts == [isNull |-> TRUE, elems |-> <<>>]
JIntArrays == {NullInts} \cup
              {[isNull |-> FALSE, elems |-> s] : s \in SeqsUpTo(FieldOffsets, MaxIdxLen)}

\* the byte an out-of-bounds read of the array may find
JunkBytes == {0, 1}
\* bytes an out-of-bounds read of a heap allocation may find before a NUL
Tails == {<<>>, <<97>>}

Zeros(n) == [k \in 1..n |-> 0]

VARIABLES
    pc,       \* "idle", "loop" (inside freeCompoundVLStr), "returned"
    buf,      \* the caller's byte array
    live,     \* addresses of the live heap allocations
    mem,      \* mem[a]: the bytes of the allocation at address a
    pins,     \* pins[x]: outstanding GetPrimitiveArrayCritical of array x
    ptr,      \* freeCompoundVLStr: ptr - byteP
    op,       \* the last call: its name and the arguments it has read
    ret,      \* the last call's return value
    calls,    \* the JNI, calloc and error calls the last call made, in order
    cpy,      \* compoundCpyVLStr: what it allocated and copied
    rd,       \* createVLStrFromCompound: what it read
    freeLog   \* freeCompoundVLStr: its calls of free, in order

vars == <<pc, buf, live, mem, pins, ptr, op, ret, calls, cpy, rd, freeLog>>

\* ------------------------------------------------------- modified UTF-8
Utf8(c) == IF c = "a" THEN <<97>> ELSE <<195, 169>>

RECURSIVE Utf8Seq(_)
Utf8Seq(s) == IF s = <<>> THEN <<>> ELSE Utf8(Head(s)) \o Utf8Seq(Tail(s))

RECURSIVE Utf8Decode(_)
Utf8Decode(b) ==
    IF b = <<>> THEN <<>>
    ELSE IF Head(b) = 97 THEN <<"a">> \o Utf8Decode(Tail(b))
    ELSE IF Head(b) = 195 /\ Len(b) >= 2 /\ b[2] = 169
         THEN <<"u00e9">> \o Utf8Decode(Tail(Tail(b)))
    ELSE <<"?">> \o Utf8Decode(Tail(b))

\* the bytes of b before its first NUL (all of b when it holds none)
RECURSIVE UpToNul(_)
UpToNul(b) ==
    IF b = <<>> \/ Head(b) = 0 THEN <<>> ELSE <<Head(b)>> \o UpToNul(Tail(b))

HasNul(b) == \E k \in 1..Len(b) : b[k] = 0

GetStringUTFLength(str) == Len(Utf8Seq(str.chars))

\* GetStringUTFRegion(env, str, start, len, buf): len counts characters; a
\* range outside the string throws StringIndexOutOfBoundsException and
\* copies nothing.
GetStringUTFRegion(str, start, len) ==
    IF start < 0 \/ len < 0 \/ start + len > Len(str.chars)
    THEN [thrown |-> TRUE, bytes |-> <<>>]
    ELSE [thrown |-> FALSE, bytes |-> Utf8Seq(SubSeq(str.chars, start + 1, start + len))]

\* ------------------------------------------------------ pointers in buf
RECURSIVE Pow256(_)
Pow256(k) == IF k = 0 THEN 1 ELSE 256 * Pow256(k - 1)

PtrByte(a, k) == (a \div Pow256(k)) % 256

\* *((char**)(byteP + bufOfs)) = a; the part of the store that falls outside
\* the array lands in other memory
StorePtr(b, ofs, a) ==
    [q \in 1..Len(b) |->
        IF q - 1 >= ofs /\ q - 1 < ofs + getPointerSize
        THEN PtrByte(a, q - 1 - ofs) ELSE b[q]]

MemByte(b, q, junk) == IF q < Len(b) THEN b[q + 1] ELSE junk

RECURSIVE LoadFrom(_, _, _, _)
LoadFrom(b, ofs, k, junk) ==
    IF k = getPointerSize THEN 0
    ELSE MemByte(b, ofs + k, junk) * Pow256(k) + LoadFrom(b, ofs, k + 1, junk)

\* *(char**)(byteP + ofs)
LoadPtr(b, ofs, junk) == LoadFrom(b, ofs, 0, junk)

\* ---------------------------------------------------------------- state
NoOp == [name |-> "none", str |-> NullStr, buf |-> "null", ofs |-> 0,
         recordSize |-> 0, vlIndices |-> NullInts]
NoRet == [kind |-> "none", int |-> 0, str |-> NullStr]
IntRet(n) == [kind |-> "int", int |-> n, str |-> NullStr]
StrRet(s) == [kind |-> "str", int |-> 0, str |-> s]
NoCpy == [addr |-> NULL, size |-> 0, count |-> 0, thrown |-> FALSE, written |-> {}]
NoRd == [addr |-> NULL, outside |-> FALSE, roundTrip |-> FALSE, text |-> <<>>]
NoPins == [x \in {"buf", "vlIndices"} |-> 0]

Init ==
    /\ pc = "idle"
    /\ \E n \in 0..MaxBufLen : buf = Zeros(n)
    /\ live = {}
    /\ mem = [a \in Addr |-> <<>>]
    /\ pins = NoPins
    /\ ptr = 0
    /\ op = NoOp
    /\ ret = NoRet
    /\ calls = <<>>
    /\ cpy = NoCpy
    /\ rd = NoRd
    /\ freeLog = <<>>

GetPrimitiveArrayCritical(p, x) == [p EXCEPT ![x] = @ + 1]
ReleasePrimitiveArrayCritical(p, x) == [p EXCEPT ![x] = @ - 1]

\* ------------------------------------------------- compoundCpyVLStr
\* lines 42-49: str == NULL, buf == NULL
CpyNullArgument(str, b) == str.isNull \/ b = "null"

\* calloc(1, len) returning p: an address that is not live, or, for a
\* request of zero bytes, possibly NULL
Calloc(p, len, lv) == (p \in Addr \ lv) \/ (p = NULL /\ len = 0)

\* lines 51-53: len = GetStringUTFLength; strPCpy = calloc(1, len);
\* GetStringUTFRegion(env, str, 0, len, strPCpy).  p is calloc's result and
\* term says whether the runtime's region copy appends a NUL (HotSpot does,
\* the JNI specification does not require it).
CpyAlloc(str, p, term) ==
    LET len == GetStringUTFLength(str)
        r == GetStringUTFRegion(str, 0, len)
    IN  [addr |-> p,
         size |-> len,
         count |-> len,
         thrown |-> r.thrown,
         written |-> IF p = NULL \/ r.thrown THEN {}
                     ELSE (0..(Len(r.bytes) - 1)) \cup
                          (IF term THEN {Len(r.bytes)} ELSE {}),
         bytes |-> [k \in 1..len |-> IF k <= Len(r.bytes) THEN r.bytes[k] ELSE 0]]

\* a store twice as wide as a pointer, the upper half zero
CpyStoreWide(b, bufOfs, p) ==
    [q \in 1..Len(b) |->
        IF q - 1 >= bufOfs /\ q - 1 < bufOfs + 2 * getPointerSize
        THEN PtrByte(p, q - 1 - bufOfs) ELSE b[q]]

\* line 60: *((char**)(byteP + bufOfs)) = strPCpy.  A store that leaves the
\* array is undefined behaviour on memory the model does not hold: the
\* caller passes offsets of slots inside the array.
CpyStore(b, bufOfs, p) == StorePtr(b, bufOfs, p)

compoundCpyVLStr ==
    /\ pc = "idle"
    /\ \E str \in JStrings, b \in JByteArrays, bufOfs \in SlotOffsets :
        /\ rd' = NoRd
        /\ freeLog' = <<>>
        /\ pc' = "returned"
        /\ UNCHANGED ptr
        /\ IF CpyNullArgument(str, b)
           THEN /\ op' = [NoOp EXCEPT !.name = "compoundCpyVLStr", !.str = str, !.buf = b]
                /\ calls' = <<"h5nullArgument">>
                /\ ret' = IntRet(-1)
                /\ cpy' = NoCpy
                /\ UNCHANGED <<buf, live, mem, pins>>
           ELSE \E p \in (Addr \ live) \cup {NULL}, term \in BOOLEAN, pinned \in BOOLEAN :
                LET c == CpyAlloc(str, p, term) IN
                /\ Calloc(p, c.size, live)
                /\ cpy' = [addr |-> c.addr, size |-> c.size, count |-> c.count,
                           thrown |-> c.thrown, written |-> c.written]
                /\ live' = IF p = NULL THEN live ELSE live \cup {p}
                /\ mem' = IF p = NULL THEN mem ELSE [mem EXCEPT ![p] = c.bytes]
                /\ IF ~pinned
                   THEN /\ op' = [NoOp EXCEPT !.name = "compoundCpyVLStr", !.str = str,
                                              !.buf = b]
                        /\ calls' = <<"GetStringUTFLength", "calloc", "GetStringUTFRegion",
                                      "GetPrimitiveArrayCritical", "h5JNIFatalError">>
                        /\ ret' = IntRet(-1)
                        /\ UNCHANGED <<buf, pins>>
                   ELSE /\ bufOfs + getPointerSize <= Len(buf)
                        /\ op' = [NoOp EXCEPT !.name = "compoundCpyVLStr", !.str = str,
                                              !.buf = b, !.ofs = bufOfs]
                        /\ calls' = <<"GetStringUTFLength", "calloc", "GetStringUTFRegion",
                                      "GetPrimitiveArrayCritical",
                                      "ReleasePrimitiveArrayCritical">>
                        /\ buf' = CpyStore(buf, bufOfs, p)
                        /\ pins' = ReleasePrimitiveArrayCritical(
                                       GetPrimitiveArrayCritical(pins, "buf"), "buf")
                        /\ ret' = IntRet(0)

\* --------------------------------------------- createVLStrFromCompound
\* NewStringUTF(env, a): the text of the bytes at a up to the first NUL.
\* NULL gives a null reference.  Bytes past the end of the allocation, or
\* at an address that is not live, are whatever the heap holds there.
NewStringUTF(a, lv, m, tail) ==
    IF a = NULL THEN [str |-> NullStr, outside |-> FALSE]
    ELSE IF a \in lv /\ HasNul(m[a])
         THEN [str |-> JStr(Utf8Decode(UpToNul(m[a]))), outside |-> FALSE]
    ELSE IF a \in lv
         THEN [str |-> JStr(Utf8Decode(m[a] \o tail)), outside |-> TRUE]
    ELSE [str |-> JStr(Utf8Decode(tail)), outside |-> TRUE]

\* line 82: buf == NULL
CreateNullArgument(b) == b = "null"

\* the bytes an out-of-bounds read may find matter only to a read that
\* leaves the array
JunksAt(b, ofs) == IF ofs + getPointerSize <= Len(b) THEN {0} ELSE JunkBytes

\* The caller may decode the slot of an encode straight after it has returned.
createVLStrFromCompound ==
    /\ \E b \in JByteArrays, offset \in SlotOffsets, pinned \in BOOLEAN :
        /\ \/ pc = "idle"
           \/ /\ pc = "returned" /\ op.name = "compoundCpyVLStr" /\ ret = IntRet(0)
              /\ b = op.buf /\ offset = op.ofs /\ pinned
        /\ cpy' = NoCpy
        /\ freeLog' = <<>>
        /\ pc' = "returned"
        /\ UNCHANGED <<buf, live, mem, ptr>>
        /\ IF CreateNullArgument(b)
           THEN /\ op' = [NoOp EXCEPT !.name = "createVLStrFromCompound", !.buf = b]
                /\ calls' = <<"h5nullArgument">>
                /\ ret' = StrRet(NullStr)
                /\ rd' = NoRd
                /\ UNCHANGED pins
           ELSE IF ~pinned
           THEN /\ op' = [NoOp EXCEPT !.name = "createVLStrFromCompound", !.buf = b]
                /\ calls' = <<"GetPrimitiveArrayCritical", "h5JNIFatalError">>
                /\ ret' = StrRet(NullStr)
                /\ rd' = NoRd
                /\ UNCHANGED pins
           ELSE \E junk \in JunksAt(buf, offset), tail \in Tails :
                LET a == LoadPtr(buf, offset, junk)
                    s == NewStringUTF(a, live, mem, tail)
                IN  /\ op' = [NoOp EXCEPT !.name = "createVLStrFromCompound", !.buf = b,
                                          !.ofs = offset]
                    /\ calls' = <<"GetPrimitiveArrayCritical", "NewStringUTF",
                                  "ReleasePrimitiveArrayCritical">>
                    /\ ret' = StrRet(s.str)
                    /\ rd' = [addr |-> a, outside |-> s.outside,
                              roundTrip |-> /\ op.name = "compoundCpyVLStr"
                                            /\ ret = IntRet(0)
                                            /\ op.ofs = offset,
                              text |-> op.str.chars]
                    /\ pins' = ReleasePrimitiveArrayCritical(
                                   GetPrimitiveArrayCritical(pins, "buf"), "buf")

\* ---------------------------------------------------- freeCompoundVLStr
\* the check of vlIndices left out
FreeNullArgumentBufOnly(b, vlIndices) == b = "null"

\* lines 119-126: buf == NULL, vlIndices == NULL
FreeNullArgument(b, vlIndices) == b = "null" \/ vlIndices.isNull

\* the unpin of vlIndices left out
FreeBufNotPinnedLeak(p) == p

\* line 138: the unpin of vlIndices when buf cannot be pinned
FreeBufNotPinned(p) == ReleasePrimitiveArrayCritical(p, "vlIndices")

\* line 144: while (ptr - byteP < bufLen)
FreeMore(pt, bufLen) == pt < bufLen

\* line 146: i < idxLen
FreeInner(k, idxLen) == k < idxLen

\* line 148: strP = ptr + idxP[i]
FreeSlot(pt, idx, k) == pt + idx[k + 1]

\* ptr advanced by the size of a slot instead of the size of a record
FreeAdvanceSlot(pt, recordSize) == pt + getPointerSize

\* ptr not advanced
FreeAdvanceStuck(pt, recordSize) == pt

\* line 151: ptr += recordSize
FreeAdvance(pt, recordSize) == pt + recordSize

\* lines 146-150: for (i = 0; i < idxLen; ++i) free(*strP), from i = k on,
\* on the heap h.  free(NULL) does nothing; free of an address that is not
\* live is logged as such and leaves the heap as it is.
RECURSIVE FreeRecordSlots(_, _, _, _, _, _)
FreeRecordSlots(k, pt, idx, b, junk, h) ==
    IF ~FreeInner(k, Len(idx)) THEN h
    ELSE LET pos == FreeSlot(pt, idx, k)
             a == LoadPtr(b, pos, junk)
         IN  FreeRecordSlots(k + 1, pt, idx, b, junk,
                 [live |-> h.live \ {a},
                  mem |-> IF a \in h.live THEN [h.mem EXCEPT ![a] = <<>>] ELSE h.mem,
                  log |-> Append(h.log, [pos |-> pos, addr |-> a, live |-> a \in h.live])])

\* the byte found outside the array matters only to a pass that reads there
FreeJunks(pt, idx, b) ==
    IF \A k \in 1..Len(idx) : pt + idx[k] + getPointerSize <= Len(b) THEN {0}
    ELSE JunkBytes

\* a call that fails before its loops has read neither recordSize nor the
\* elements of vlIndices
FreeFailed(b, vlIndices) ==
    [NoOp EXCEPT !.name = "freeCompoundVLStr", !.buf = b,
                 !.vlIndices = [vlIndices EXCEPT !.elems = <<>>]]

\* lines 119-143: the checks, the length queries and the two pins
FreeBegin ==
    /\ pc = "idle"
    /\ \E b \in JByteArrays, recordSize \in RecordSizes, vlIndices \in JIntArrays :
        /\ cpy' = NoCpy
        /\ rd' = NoRd
        /\ freeLog' = <<>>
        /\ ptr' = 0
        /\ UNCHANGED <<buf, live, mem>>
        /\ IF FreeNullArgument(b, vlIndices)
           THEN /\ op' = FreeFailed(b, vlIndices)
                /\ calls' = <<"h5nullArgument">>
                /\ ret' = IntRet(-1)
                /\ pc' = "returned"
                /\ UNCHANGED pins
           ELSE \E idxPinned \in BOOLEAN, bufPinned \in BOOLEAN :
                IF ~idxPinned
                THEN /\ op' = FreeFailed(b, vlIndices)
                     /\ calls' = <<"GetArrayLength", "GetArrayLength",
                                   "GetPrimitiveArrayCritical", "h5JNIFatalError">>
                     /\ ret' = IntRet(-1)
                     /\ pc' = "returned"
                     /\ UNCHANGED pins
                ELSE IF ~bufPinned
                THEN /\ op' = FreeFailed(b, vlIndices)
                     /\ calls' = <<"GetArrayLength", "GetArrayLength",
                                   "GetPrimitiveArrayCritical", "GetPrimitiveArrayCritical",
                                   "ReleasePrimitiveArrayCritical", "h5JNIFatalError">>
                     /\ ret' = IntRet(-1)
                     /\ pins' = FreeBufNotPinned(GetPrimitiveArrayCritical(pins, "vlIndices"))
                     /\ pc' = "returned"
                ELSE /\ op' = [NoOp EXCEPT !.name = "freeCompoundVLStr", !.buf = b,
                                           !.recordSize = recordSize,
                                           !.vlIndices = vlIndices]
                     /\ calls' = <<"GetArrayLength", "GetArrayLength",
                                   "GetPrimitiveArrayCritical", "GetPrimitiveArrayCritical">>
                     /\ ret' = NoRet
                     /\ pins' = GetPrimitiveArrayCritical(
                                    GetPrimitiveArrayCritical(pins, "vlIndices"), "buf")
                     /\ pc' = "loop"

\* lines 144-152: one pass of the outer loop.  The log of a run is capped at
\* the release calls of one pass per byte ptr has advanced, which no run
\* with recordSize >= 1 exceeds.
FreeRecord ==
    /\ pc = "loop"
    /\ FreeMore(ptr, Len(buf))
    /\ Len(freeLog) <= ptr * Len(op.vlIndices.elems)
    /\ \E junk \in FreeJunks(ptr, op.vlIndices.elems, buf) :
        LET h == FreeRecordSlots(0, ptr, op.vlIndices.elems, buf, junk,
                                 [live |-> live, mem |-> mem, log |-> freeLog])
        IN  /\ live' = h.live
            /\ mem' = h.mem
            /\ freeLog' = h.log
    /\ ptr' = FreeAdvance(ptr, op.recordSize)
    /\ UNCHANGED <<pc, buf, pins, op, ret, calls, cpy, rd>>

\* lines 154-157: the two unpins and return 0
FreeEnd ==
    /\ pc = "loop"
    /\ ~FreeMore(ptr, Len(buf))
    /\ pins' = ReleasePrimitiveArrayCritical(
                   ReleasePrimitiveArrayCritical(pins, "vlIndices"), "buf")
    /\ calls' = calls \o <<"ReleasePrimitiveArrayCritical", "ReleasePrimitiveArrayCritical">>
    /\ ret' = IntRet(0)
    /\ pc' = "returned"
    /\ UNCHANGED <<buf, live, mem, ptr, op, cpy, rd, freeLog>>

\* The caller has taken the result: the record of the call is dropped.
Return ==
    /\ pc = "returned"
    /\ pc' = "idle"
    /\ ptr' = 0
    /\ op' = NoOp
    /\ ret' = NoRet
    /\ calls' = <<>>
    /\ cpy' = NoCpy
    /\ rd' = NoRd
    /\ freeLog' = <<>>
    /\ UNCHANGED <<buf, live, mem, pins>>

Next ==
    \/ compoundCpyVLStr
    \/ createVLStrFromCompound
    \/ FreeBegin
    \/ FreeRecord
    \/ FreeEnd
    \/ Return

Spec == Init /\ [][Next]_vars

\* the native code keeps running once it has entered its loop
FairSpec == Spec /\ WF_vars(FreeRecord) /\ WF_vars(FreeEnd)

\* ================================================================ claims
IsCpy == op.name = "compoundCpyVLStr"
IsCreate == op.name = "createVLStrFromCompound"
IsFree == op.name = "freeCompoundVLStr"
Returned == pc = "returned"
InBounds(ofs) == ofs + getPointerSize <= Len(buf)

\* C1: a decode that follows a successful encode of text T at an in-bounds
\* slot returns exactly T and reads only bytes of the allocation encode made.
C1_RoundTrip ==
    (Returned /\ IsCreate /\ rd.roundTrip /\ InBounds(op.ofs))
        => (ret.str = JStr(rd.text) /\ ~rd.outside)

\* C2: after a successful encode of T the slot's allocation is a
\* NUL-terminated copy of T: it is live and at least as long as T's bytes,
\* the count given to the region copy is a character range of T, every byte
\* written lies inside the allocation, and the allocation holds T's bytes
\* followed by a NUL.
C2_NulTerminatedCopy ==
    (Returned /\ IsCpy /\ ret = IntRet(0))
        => /\ cpy.addr \in live
           /\ cpy.size >= Len(Utf8Seq(op.str.chars))
           /\ cpy.count <= Len(op.str.chars)
           /\ cpy.written \subseteq 0..(cpy.size - 1)
           /\ HasNul(mem[cpy.addr])
           /\ UpToNul(mem[cpy.addr]) = Utf8Seq(op.str.chars)

\* the position of the k-th release call of a run over n records of size r
ExpectedPos(k, r, idx) == ((k - 1) \div Len(idx)) * r + idx[((k - 1) % Len(idx)) + 1]

C4_NoPartialRecord ==
    (Returned /\ IsFree /\ ret = IntRet(0) /\ op.recordSize >= 1
              /\ Len(buf) % op.recordSize # 0)
        => /\ ptr = (Len(buf) \div op.recordSize) * op.recordSize
           /\ \A k \in 1..Len(freeLog) : InBounds(freeLog[k].pos)

\* C5: every non-null address releaseAll releases is a live allocation.
C5_NoBadFree ==
    \A k \in 1..Len(freeLog) : freeLog[k].addr = NULL \/ freeLog[k].live

\* C6: an encode that returns -1 leaves every byte of the array and the set
\* of live allocations as they were.
C6_FailedEncodeNoWork ==
    [][(pc = "idle" /\ op'.name = "compoundCpyVLStr" /\ ret' = IntRet(-1))
           => (buf' = buf /\ live' = live)]_vars

\* C7: after any call has returned, no array is left pinned.
C7_NoPinOutstanding ==
    (pc \in {"idle", "returned"}) => pins = NoPins

C7_Witness ==
    /\ Returned /\ IsFree /\ ret = IntRet(-1)
    /\ calls = <<"GetArrayLength", "GetArrayLength", "GetPrimitiveArrayCritical",
                 "GetPrimitiveArrayCritical", "ReleasePrimitiveArrayCritical",
                 "h5JNIFatalError">>
    /\ pins = NoPins

AbsentArgument ==
    \/ IsCpy /\ (op.str.isNull \/ op.buf = "null")
    \/ IsCreate /\ op.buf = "null"
    \/ IsFree /\ (op.buf = "null" \/ op.vlIndices.isNull)

\* C8: a call with an absent argument makes one call only, h5nullArgument,
\* and returns the failure value: no pin, no length query, no allocation, no
\* release call.
C8_AbsentFirst ==
    AbsentArgument
        => /\ Returned
           /\ calls = <<"h5nullArgument">>
           /\ ret = IF IsCreate THEN StrRet(NullStr) ELSE IntRet(-1)
           /\ cpy = NoCpy
           /\ freeLog = <<>>
           /\ pins = NoPins

C8_Witness ==
    /\ Returned /\ IsFree /\ op.buf = "buf" /\ op.vlIndices.isNull
    /\ calls = <<"h5nullArgument">>
    /\ live # {}

\* C9: a successful encode at an in-bounds offset O changes only the bytes
\* [O, O + pointer_width) of the array: every other byte, and every slot
\* that does not overlap them, keeps its value.
C9_Independence ==
    [][(pc = "idle" /\ op'.name = "compoundCpyVLStr" /\ ret' = IntRet(0)
                    /\ op'.ofs + getPointerSize <= Len(buf))
           => /\ Len(buf') = Len(buf)
              /\ \A q \in 0..(Len(buf) - 1) :
                    (q < op'.ofs \/ q >= op'.ofs + getPointerSize)
                        => buf'[q + 1] = buf[q + 1]
              /\ \A o \in 0..(Len(buf) - getPointerSize) :
                    (o + getPointerSize <= op'.ofs \/ o >= op'.ofs + getPointerSize)
                        => LoadPtr(buf', o, 0) = LoadPtr(buf, o, 0)]_vars

C9_Witness ==
    /\ Returned /\ IsCpy /\ ret = IntRet(0) /\ InBounds(op.ofs)
    /\ cpy.addr # NULL
    /\ \E q \in 0..(Len(buf) - 1) :
          (q < op.ofs \/ q >= op.ofs + getPointerSize) /\ buf[q + 1] # 0

\* C10: with recordSize >= 1 the loop of releaseAll advances ptr by
\* recordSize on every pass and the call returns 0; on an empty array it
\* returns 0 without a release call.
C10_Terminates ==
    /\ [][(pc = "loop" /\ pc' = "loop") => ptr' = ptr + op.recordSize]_vars
    /\ (pc = "loop" /\ op.recordSize >= 1) ~> (Returned /\ ret = IntRet(0))
    /\ []((Returned /\ IsFree /\ ret = IntRet(0) /\ buf = <<>>) => freeLog = <<>>)

C10_Witness ==
    /\ Returned /\ IsFree /\ ret = IntRet(0) /\ op.recordSize >= 1
    /\ ptr >= 2 * op.recordSize
    /\ Len(buf) % op.recordSize # 0

====
